---- MODULE Spec2Model ----
(***************************************************************************)
(* Model of src/main.py: the Streamlit script main() of the GitLab         *)
(* pipeline dashboard, the GitLabDashboard API client it drives and the    *)
(* two display helpers get_status_color and get_time_ago.                  *)
(*                                                                         *)
(* Python values are modelled as follows.                                  *)
(*  - A timestamp string is a record [kind, t]: kind "iso" with t the      *)
(*    instant in seconds, or one of "none" (None), "empty" ('') and        *)
(*    "garbage" (a string datetime.fromisoformat rejects).                 *)
(*  - A call that may raise returns [raised, value, ...]; raised is the    *)
(*    exception class name or "none".                                      *)
(*  - Glyphs are named by their shape ("green_circle" for the emoji).      *)
(***************************************************************************)
EXTENDS Integers, Sequences, FiniteSets, TLC

VARIABLES
    \* ---- widgets of the sidebar (lines 113-138) ----
    gitlab_url, access_token, group_id, auto_refresh, button,
    \* ---- position and locals of the running script main() ----
    pc, exception, projects, platform, i, all_pipelines_data, st_error,
    display_df, pending_df, k, jobs_call, success_df,
    group_fetches, pipeline_fetches,
    \* ---- clock ----
    now,
    \* ---- direct calls of the two display helpers ----
    status, dt_string, icon, time_ago

widgets == <<gitlab_url, access_token, group_id, auto_refresh, button>>
locals  == <<exception, projects, platform, i, all_pipelines_data, st_error,
             display_df, pending_df, k, jobs_call, success_df,
             group_fetches, pipeline_fetches>>
helpers == <<status, dt_string, icon, time_ago>>
vars    == <<widgets, pc, locals, now, helpers>>

----------------------------------------------------------------------------
(* Bounds *)
MaxProjects == 3
NumProjectIds == 2

ProjectIds == 1..NumProjectIds

(* Program constants *)
per_page == 5
TopN == 10
HourSeconds == 3600
MinuteSeconds == 60

----------------------------------------------------------------------------
(* Sequence helpers *)
Take(s, n) == SubSeq(s, 1, IF Len(s) < n THEN Len(s) ELSE n)

RECURSIVE SelectRows(_, _)
SelectRows(s, statuses) ==
    IF s = <<>> THEN <<>>
    ELSE IF Head(s).Status \in statuses
         THEN <<Head(s)>> \o SelectRows(Tail(s), statuses)
         ELSE SelectRows(Tail(s), statuses)

----------------------------------------------------------------------------
(* get_status_color, lines 86-98 *)
colors == [s \in {"success", "failed", "running", "pending", "canceled",
                  "skipped", "created", "manual"} |->
             CASE s = "success"  -> "green_circle"
               [] s = "failed"   -> "red_circle"
               [] s = "running"  -> "blue_circle"
               [] s = "pending"  -> "yellow_circle"
               [] s = "canceled" -> "white_circle"
               [] s = "skipped"  -> "black_circle"
               [] s = "created"  -> "yellow_circle"
               [] s = "manual"   -> "orange_circle"]

get_status_color_nodefault(s) ==
    IF s \in DOMAIN colors THEN colors[s] ELSE "KeyError"

get_status_color(s) ==
    IF s \in DOMAIN colors THEN colors[s] ELSE "white_circle"

----------------------------------------------------------------------------
(* get_time_ago, lines 63-84 *)
NA == [n |-> 0, text |-> "N/A"]

\* timedelta normalisation: days = floor(d / 86400), 0 <= seconds < 86400
delta_days(d) == d \div 86400
delta_seconds(d) == d % 86400

get_time_ago(dt, clock) ==
    IF dt.kind \in {"none", "empty"} THEN NA            \* line 65: not dt_string
    ELSE IF dt.kind # "iso" THEN NA                     \* line 83: bare except
    ELSE LET delta == clock - dt.t IN
         IF delta_days(delta) > 0
           THEN [n |-> delta_days(delta), text |-> "days ago"]
         ELSE IF delta_seconds(delta) > HourSeconds
           THEN [n |-> delta_seconds(delta) \div 3600, text |-> "hours ago"]
         ELSE IF delta_seconds(delta) > MinuteSeconds
           THEN [n |-> delta_seconds(delta) \div 60, text |-> "minutes ago"]
         ELSE [n |-> 0, text |-> "Just now"]

----------------------------------------------------------------------------
(* The HTTP layer as the client sees it: requests.get, raise_for_status    *)
(* and response.json (lines 21-23, 34-36, 46-48).  An endpoint answer is   *)
(* [kind, body]: kind "ok" carries the decoded body, any other kind is the *)
(* exception the three calls raise.  response.json raises                  *)
(* requests.exceptions.JSONDecodeError on an undecodable body, which is a  *)
(* RequestException like the transport and HTTP status errors.             *)
RequestException == {"ConnectionError", "HTTPError", "JSONDecodeError"}

HttpGetJson(answer) ==
    IF answer.kind = "ok"
    THEN [raised |-> "none", value |-> answer.body]
    ELSE [raised |-> answer.kind, value |-> <<>>]

(* get_group_projects, lines 15-26 *)
get_group_projects(answer) ==
    LET r == HttpGetJson(answer) IN
    IF r.raised \in RequestException
    THEN [raised |-> "none", value |-> <<>>, st_error |-> TRUE]
    ELSE [raised |-> r.raised, value |-> r.value, st_error |-> FALSE]

(* get_project_pipelines, lines 28-39 *)
get_project_pipelines_silent(answer) ==
    LET r == HttpGetJson(answer) IN
    IF r.raised \in RequestException
    THEN [raised |-> "none", value |-> <<>>, st_error |-> FALSE]
    ELSE [raised |-> r.raised, value |-> r.value, st_error |-> FALSE]

get_project_pipelines(answer) ==
    LET r == HttpGetJson(answer) IN
    IF r.raised \in RequestException
    THEN [raised |-> "none", value |-> <<>>, st_error |-> TRUE]
    ELSE [raised |-> r.raised, value |-> r.value, st_error |-> FALSE]

(* get_pipeline_jobs, lines 41-50 *)
get_pipeline_jobs_httponly(answer) ==
    LET r == HttpGetJson(answer) IN
    IF r.raised \in {"HTTPError"}
    THEN [raised |-> "none", value |-> <<>>]
    ELSE [raised |-> r.raised, value |-> r.value]

get_pipeline_jobs(answer) ==
    LET r == HttpGetJson(answer) IN
    IF r.raised \in RequestException
    THEN [raised |-> "none", value |-> <<>>]
    ELSE [raised |-> r.raised, value |-> r.value]

----------------------------------------------------------------------------
(* The platform.  Each project's pipeline endpoint behaves in one of the   *)
(* ways below for the whole aggregation; "silent" never answers.           *)
PipelineEndpoints == {"ConnectionError", "HTTPError", "JSONDecodeError",
                      "silent", "empty", "mixed", "five_success",
                      "malformed"}

Iso(t) == [kind |-> "iso", t |-> t]
Empty == [kind |-> "empty", t |-> 0]

\* the pipelines the platform holds for project p, most recent first
PlatformPipelines(kind, p) ==
    CASE kind = "mixed" ->
           << [id |-> 10 * p + 1, status |-> "pending", ref |-> "main",
               updated_at |-> Iso(199970)],
              [id |-> 10 * p + 2, status |-> "created", ref |-> "dev"],
              [id |-> 10 * p + 3, status |-> "running", ref |-> "main",
               updated_at |-> Iso(196400)],
              [id |-> 10 * p + 4, status |-> "success", ref |-> "main",
               updated_at |-> Iso(113600)],
              [id |-> 10 * p + 5, status |-> "failed", ref |-> "main",
               updated_at |-> [kind |-> "garbage", t |-> 0]],
              [id |-> 10 * p + 6, status |-> "weird_status", ref |-> "main",
               updated_at |-> Iso(100000)] >>
      [] kind = "five_success" ->
           [n \in 1..6 |->
              [id |-> 10 * p + n, status |-> "success", ref |-> "main",
               updated_at |-> Iso(199000 - 1000 * n + 10 * p)]]
      [] kind = "malformed" ->
           << [id |-> 10 * p + 1, status |-> "success", ref |-> "main",
               updated_at |-> Iso(199000)],
              [id |-> 10 * p + 2] >>
      [] OTHER -> <<>>

\* GET /projects/{id}/pipelines?per_page=..&sort=desc
PipelinesAnswer(kind, p, limit) ==
    IF kind \in RequestException
    THEN [kind |-> kind, body |-> <<>>]
    ELSE [kind |-> "ok", body |-> Take(PlatformPipelines(kind, p), limit)]

\* GET /projects/{id}/pipelines/{pipeline_id}/jobs
JobsAnswers ==
    { [kind |-> e, body |-> <<>>] : e \in RequestException } \cup
    { [kind |-> "ok", body |-> <<>>],
      [kind |-> "ok", body |-> << [id |-> 1, name |-> "build", status |-> "success"],
                                  [id |-> 2, name |-> "test", status |-> "running"] >>],
      [kind |-> "ok", body |-> << [id |-> 1, name |-> "build"] >>] }

\* GET /groups/{id}/projects?per_page=100&simple=true
RECURSIVE ProjectLists(_)
ProjectLists(n) ==
    IF n = 0 THEN {<<>>}
    ELSE ProjectLists(n - 1) \cup
         { Append(l, [id |-> p]) : l \in { m \in ProjectLists(n - 1) : Len(m) = n - 1 },
                                   p \in ProjectIds }

GroupAnswers ==
    { [kind |-> e, body |-> <<>>] : e \in RequestException } \cup
    { [kind |-> "ok", body |-> l] : l \in ProjectLists(MaxProjects) }

Ids(list) == { list[j].id : j \in DOMAIN list }
----------------------------------------------------------------------------
(* main, lines 172-183: the rows one project contributes.  pipeline['id'], *)
(* pipeline['status'] and pipeline['ref'] raise KeyError when absent;      *)
(* pipeline.get('updated_at', '') does not.                                *)
MakeRow(project, pipeline) ==
    [ProjectID  |-> project.id,
     PipelineID |-> pipeline.id,
     Status     |-> pipeline.status,
     Branch     |-> pipeline.ref,
     Updated    |-> IF "updated_at" \in DOMAIN pipeline
                    THEN pipeline.updated_at ELSE Empty]

RECURSIVE CollectRows(_, _)
CollectRows(project, pipelines) ==
    IF pipelines = <<>> THEN [raised |-> "none", rows |-> <<>>]
    ELSE IF ~({"id", "status", "ref"} \subseteq DOMAIN Head(pipelines))
         THEN [raised |-> "KeyError", rows |-> <<>>]
         ELSE LET rest == CollectRows(project, Tail(pipelines)) IN
              [raised |-> rest.raised,
               rows   |-> <<MakeRow(project, Head(pipelines))>> \o rest.rows]

\* line 173: all_pipelines_data.append(...)
ExtendData_front(data, rows) == rows \o data

ExtendData(data, rows) == data \o rows

(* lines 216-219: the display frame of the overview tab *)
RECURSIVE DisplayRows(_, _)
DisplayRows(data, clock) ==
    IF data = <<>> THEN <<>>
    ELSE << [ProjectID  |-> Head(data).ProjectID,
             Branch     |-> Head(data).Branch,
             Status     |-> Head(data).Status,
             StatusIcon |-> get_status_color(Head(data).Status),
             TimeAgo    |-> get_time_ago(Head(data).Updated, clock)] >>
         \o DisplayRows(Tail(data), clock)

(* line 233: the pending tab's filter *)
PendingFilter(data) == SelectRows(data, {"pending", "created", "running"})

(* lines 264-270: the success tab's filter, sort and head(10).  'Updated'  *)
(* is compared as a string: '' sorts before every timestamp, and           *)
(* timestamps of one format compare as their instants do.  Rows with equal *)
(* keys keep their collection order.                                       *)
SortKey(row) ==
    IF row.Updated.kind = "iso" THEN row.Updated.t
    ELSE IF row.Updated.kind = "garbage" THEN 999999 ELSE 0

RECURSIVE InsertDesc(_, _)
InsertDesc(row, sorted) ==
    IF sorted = <<>> THEN <<row>>
    ELSE IF SortKey(Head(sorted)) >= SortKey(row)
         THEN <<Head(sorted)>> \o InsertDesc(row, Tail(sorted))
         ELSE <<row>> \o sorted

RECURSIVE SortDesc(_)
SortDesc(rows) ==
    IF rows = <<>> THEN <<>>
    ELSE InsertDesc(rows[Len(rows)], SortDesc(SubSeq(rows, 1, Len(rows) - 1)))

SuccessView_nocap(data) == SortDesc(SelectRows(data, {"success"}))

SuccessView(data) == Take(SortDesc(SelectRows(data, {"success"})), TopN)

----------------------------------------------------------------------------
(* State *)
NoCall == [answer |-> [kind |-> "none", body |-> <<>>], raised |-> "none",
           value |-> <<>>, icons |-> <<>>]

FreshLocals ==
    /\ exception = "none"
    /\ projects = <<>>
    /\ platform = <<>>
    /\ i = 0
    /\ all_pipelines_data = <<>>
    /\ st_error = <<>>
    /\ display_df = <<>>
    /\ pending_df = <<>>
    /\ k = 0
    /\ jobs_call = NoCall
    /\ success_df = <<>>
    /\ group_fetches = 0
    /\ pipeline_fetches = 0

IdleHelpers ==
    /\ status = ""
    /\ dt_string = Empty
    /\ icon = "unset"
    /\ time_ago = [n |-> 0, text |-> "unset"]

\* lines 113-130: the widgets' default values
Init ==
    /\ gitlab_url = "https://gitlab.com"
    /\ access_token = ""
    /\ group_id = ""
    /\ auto_refresh = FALSE
    /\ button = FALSE
    /\ pc = "start"
    /\ FreshLocals
    /\ now = 200000
    /\ IdleHelpers

\* projects whose pipeline fetch put up the error box of line 38
failed_projects ==
    { st_error[j].project_id : j \in { m \in DOMAIN st_error : st_error[m].what = "pipelines" } }

----------------------------------------------------------------------------
(* Actions of one script run *)

\* lines 130-142
Sidebar ==
    /\ pc = "start"
    /\ pc' = IF auto_refresh THEN "rerun"                  \* sleep(30); st.rerun()
             ELSE IF button THEN "rerun"                   \* st.rerun()
             ELSE IF "" \in {gitlab_url, access_token, group_id}
                  THEN "done"                              \* st.warning; return
             ELSE "get_group_projects"
    /\ UNCHANGED <<widgets, locals, now, helpers>>

\* st.rerun(): the run stops and the script starts over; the button reads
\* False in the run that follows
Rerun ==
    /\ pc = "rerun"
    /\ pc' = "start"
    /\ button' = FALSE
    /\ UNCHANGED <<gitlab_url, access_token, group_id, auto_refresh,
                   locals, now, helpers>>

\* lines 145-155
GetGroupProjects ==
    /\ pc = "get_group_projects"
    /\ \E answer \in GroupAnswers :
         LET r == get_group_projects(answer) IN
         /\ group_fetches' = group_fetches + 1
         /\ st_error' = IF r.st_error
                        THEN Append(st_error, [what |-> "group", project_id |-> 0])
                        ELSE st_error
         /\ IF r.raised # "none"
            THEN /\ exception' = r.raised
                 /\ pc' = "crashed"
                 /\ UNCHANGED <<projects, platform>>
            ELSE IF r.value = <<>>
            THEN /\ pc' = "done"                           \* lines 151-153
                 /\ UNCHANGED <<exception, projects, platform>>
            ELSE /\ projects' = r.value
                 /\ platform' \in [Ids(r.value) -> PipelineEndpoints]
                 /\ pc' = "for_projects"
                 /\ UNCHANGED exception
    /\ UNCHANGED <<widgets, i, all_pipelines_data, display_df, pending_df, k,
                   jobs_call, success_df, pipeline_fetches, now, helpers>>

\* lines 168-185, one iteration of the loop.  requests.get is called
\* without a timeout: it returns only when the endpoint answers.
FetchPipelines ==
    /\ pc = "for_projects"
    /\ i < Len(projects)
    /\ LET project == projects[i + 1]
           kind    == platform[project.id]
       IN
       /\ kind # "silent"
       /\ LET r == get_project_pipelines(PipelinesAnswer(kind, project.id, per_page))
              c == CollectRows(project, r.value)
          IN
          /\ pipeline_fetches' = pipeline_fetches + 1
          /\ st_error' = IF r.st_error
                         THEN Append(st_error, [what |-> "pipelines",
                                                project_id |-> project.id])
                         ELSE st_error
          /\ IF r.raised # "none"
             THEN /\ exception' = r.raised
                  /\ pc' = "crashed"
                  /\ UNCHANGED <<i, all_pipelines_data>>
             ELSE /\ all_pipelines_data' = ExtendData(all_pipelines_data, c.rows)
                  /\ IF c.raised # "none"
                     THEN /\ exception' = c.raised
                          /\ pc' = "crashed"
                          /\ UNCHANGED i
                     ELSE /\ i' = i + 1
                          /\ pc' = IF i + 1 = Len(projects)
                                   THEN "overview" ELSE "for_projects"
                          /\ UNCHANGED exception
    /\ UNCHANGED <<widgets, projects, platform, display_df, pending_df, k,
                   jobs_call, success_df, group_fetches, now, helpers>>

\* lines 187-227, then line 233
Overview ==
    /\ pc = "overview"
    /\ display_df' = DisplayRows(all_pipelines_data, now)
    /\ pending_df' = PendingFilter(all_pipelines_data)
    /\ k' = 0
    /\ pc' = IF PendingFilter(all_pipelines_data) = <<>>
             THEN "success_tab" ELSE "pending_tab"
    /\ UNCHANGED <<widgets, exception, projects, platform, i,
                   all_pipelines_data, st_error, jobs_call, success_df,
                   group_fetches, pipeline_fetches, now, helpers>>

RECURSIVE JobIcons(_)
JobIcons(jobs) ==
    IF jobs = <<>> THEN <<>>
    ELSE <<get_status_color(Head(jobs).status)>> \o JobIcons(Tail(jobs))

\* lines 236-256, one expander of the pending tab
ExpandPending ==
    /\ pc = "pending_tab"
    /\ k < Len(pending_df)
    /\ \E answer \in JobsAnswers :
         LET r == get_pipeline_jobs(answer)
             bad == \E j \in DOMAIN r.value :
                       ~({"status", "name"} \subseteq DOMAIN r.value[j])
         IN
         /\ jobs_call' = [answer |-> answer, raised |-> r.raised,
                          value |-> r.value,
                          icons |-> IF r.raised = "none" /\ ~bad
                                    THEN JobIcons(r.value) ELSE <<>>]
         /\ IF r.raised # "none"
            THEN /\ exception' = r.raised
                 /\ pc' = "crashed"
                 /\ UNCHANGED k
            ELSE IF bad
            THEN /\ exception' = "KeyError"                \* line 255
                 /\ pc' = "crashed"
                 /\ UNCHANGED k
            ELSE /\ k' = k + 1
                 /\ pc' = IF k + 1 = Len(pending_df)
                          THEN "success_tab" ELSE "pending_tab"
                 /\ UNCHANGED exception
    /\ UNCHANGED <<widgets, projects, platform, i, all_pipelines_data,
                   st_error, display_df, pending_df, success_df,
                   group_fetches, pipeline_fetches, now, helpers>>

\* lines 260-290
SuccessTab ==
    /\ pc = "success_tab"
    /\ success_df' = SuccessView(all_pipelines_data)
    /\ pc' = "done"
    /\ UNCHANGED <<widgets, exception, projects, platform, i,
                   all_pipelines_data, st_error, display_df, pending_df, k,
                   jobs_call, group_fetches, pipeline_fetches, now, helpers>>

\* The user edits one widget or clicks "Refresh Now": Streamlit stops the
\* run in progress, drops its locals and runs the script from the top.
ResetLocals ==
    /\ exception' = "none"
    /\ projects' = <<>>
    /\ platform' = <<>>
    /\ i' = 0
    /\ all_pipelines_data' = <<>>
    /\ st_error' = <<>>
    /\ display_df' = <<>>
    /\ pending_df' = <<>>
    /\ k' = 0
    /\ jobs_call' = NoCall
    /\ success_df' = <<>>
    /\ group_fetches' = 0
    /\ pipeline_fetches' = 0

Interact ==
    /\ \/ /\ gitlab_url' \in {"", "https://gitlab.com"} \ {gitlab_url}
          /\ button' = FALSE
          /\ UNCHANGED <<access_token, group_id, auto_refresh>>
       \/ /\ access_token' \in {"", "glpat"} \ {access_token}
          /\ button' = FALSE
          /\ UNCHANGED <<gitlab_url, group_id, auto_refresh>>
       \/ /\ group_id' \in {"", "42"} \ {group_id}
          /\ button' = FALSE
          /\ UNCHANGED <<gitlab_url, access_token, auto_refresh>>
       \/ /\ auto_refresh' = ~auto_refresh
          /\ button' = FALSE
          /\ UNCHANGED <<gitlab_url, access_token, group_id>>
       \/ /\ button' = TRUE
          /\ UNCHANGED <<gitlab_url, access_token, group_id, auto_refresh>>
    /\ pc' = "start"
    /\ ResetLocals
    /\ UNCHANGED <<now, helpers>>

ScriptStep ==
    \/ Sidebar
    \/ Rerun
    \/ GetGroupProjects
    \/ FetchPipelines
    \/ Overview
    \/ ExpandPending
    \/ SuccessTab

Next ==
    \/ Sidebar
    \/ Rerun
    \/ GetGroupProjects
    \/ FetchPipelines
    \/ Overview
    \/ ExpandPending
    \/ SuccessTab
    \/ Interact

Spec == Init /\ [][Next]_vars

\* Streamlit runs the script until it returns, raises or blocks; the user
\* is under no obligation to touch the page.
FairSpec == Init /\ [][Next]_vars /\ WF_vars(ScriptStep)
----------------------------------------------------------------------------
(* The two display helpers called directly, on inputs of every shape *)
StatusStrings == DOMAIN colors \cup {"weird_status", ""}

DtStrings ==
    { [kind |-> "none", t |-> 0], Empty, [kind |-> "garbage", t |-> 0] } \cup
    { Iso(200000 - d) : d \in {-5, 0, 59, 60, 3599, 3600, 7199, 86399, 86400, 172799} }

HelperInit ==
    /\ gitlab_url = "https://gitlab.com"
    /\ access_token = ""
    /\ group_id = ""
    /\ auto_refresh = FALSE
    /\ button = FALSE
    /\ pc = "helpers"
    /\ FreshLocals
    /\ now \in {200000, 200001}
    /\ status \in StatusStrings
    /\ dt_string \in DtStrings
    /\ icon = "unset"
    /\ time_ago = [n |-> 0, text |-> "unset"]

CallGetStatusColor ==
    /\ pc = "helpers"
    /\ icon = "unset"
    /\ icon' = get_status_color(status)
    /\ UNCHANGED <<widgets, pc, locals, now, status, dt_string, time_ago>>

CallGetTimeAgo ==
    /\ pc = "helpers"
    /\ time_ago.text = "unset"
    /\ time_ago' = get_time_ago(dt_string, now)
    /\ UNCHANGED <<widgets, pc, locals, now, status, dt_string, icon>>

HelperNext ==
    \/ CallGetStatusColor
    \/ CallGetTimeAgo

HelperSpec == HelperInit /\ [][HelperNext]_vars

----------------------------------------------------------------------------
(* Properties *)

\* the loop of lines 168-185 has run over the whole project list
LoopComplete == projects # <<>> /\ i = Len(projects)

\* the script has left the loop, by completing it or by an exception
LoopLeft == projects # <<>> /\ pc \in {"overview", "pending_tab", "success_tab",
                                       "done", "crashed"}

Answered == {"empty", "mixed", "five_success"}

\* <<project id, pipeline id>> of the pipelines project p's endpoint returns
Returned(p) ==
    LET body == IF platform[p] \in Answered
                THEN Take(PlatformPipelines(platform[p], p), per_page)
                ELSE <<>>
    IN [n \in 1..Len(body) |-> <<p, body[n].id>>]

RECURSIVE InListOrder(_)
InListOrder(list) ==
    IF list = <<>> THEN <<>>
    ELSE Returned(Head(list).id) \o InListOrder(Tail(list))

Collected == [n \in 1..Len(all_pipelines_data) |->
                <<all_pipelines_data[n].ProjectID, all_pipelines_data[n].PipelineID>>]

RECURSIVE Dedup(_)
Dedup(list) ==
    IF list = <<>> THEN <<>>
    ELSE LET front == Dedup(SubSeq(list, 1, Len(list) - 1))
             last  == list[Len(list)]
         IN IF last.id \in Ids(front) THEN front ELSE Append(front, last)

Range(s) == { s[n] : n \in DOMAIN s }

\* C1: whichever per-project fetches fail, and however (transport, non-2xx,
\* undecodable or malformed body), the aggregation runs to the end of the
\* project list and the collection holds every pipeline returned by every
\* project whose fetch succeeded.
C1_PartialFailureTolerance ==
    LoopLeft =>
        /\ i = Len(projects)
        /\ \A p \in Ids(projects) : Range(Returned(p)) \subseteq Range(Collected)

\* C2: once the aggregation has completed, the projects reported as failed
\* are exactly the input projects whose pipeline fetch errored; a project
\* whose fetch succeeded with zero pipelines is not among them.
C2_FailedProjectsExact ==
    LoopComplete =>
        failed_projects = { p \in Ids(projects) : platform[p] \in RequestException }

C2_Witness ==
    /\ LoopComplete
    /\ \E p, q \in Ids(projects) :
         /\ platform[p] = "empty"
         /\ platform[q] \in RequestException
         /\ p \notin failed_projects
         /\ q \in failed_projects

\* C3: the merged collection is in input-project order, each project's
\* pipelines in the order the platform returned them.
C3_InputProjectOrder ==
    LoopComplete => Collected = InListOrder(projects)

C3_Witness ==
    /\ LoopComplete
    /\ Len(projects) >= 2
    /\ projects[1].id > projects[2].id
    /\ platform[projects[1].id] \in {"mixed", "five_success"}
    /\ platform[projects[2].id] \in {"mixed", "five_success"}
    /\ Len(all_pipelines_data) = 2 * per_page

\* C4: every outbound call carries a timeout, so an aggregation that has
\* begun fetching pipelines always eventually gets past the fetch loop, even
\* when a project's endpoint never responds.
C4_AggregationTerminates ==
    (pc = "for_projects") ~> (pc # "for_projects")

\* C5: duplicate project ids are removed before fetching: one pipeline fetch
\* per distinct project, and the same collection as for the list without
\* the duplicates.
C5_Deduplication ==
    LoopComplete =>
        /\ pipeline_fetches = Cardinality(Ids(projects))
        /\ Collected = InListOrder(Dedup(projects))

Glyphs == {"green_circle", "red_circle", "blue_circle", "yellow_circle",
           "white_circle", "black_circle", "orange_circle"}

C8_ElapsedBuckets ==
    time_ago.text # "unset" =>
        IF dt_string.kind # "iso" THEN time_ago = NA
        ELSE LET d == now - dt_string.t IN
             d >= 0 =>
               /\ d < 60 => time_ago = [n |-> 0, text |-> "Just now"]
               /\ (60 <= d /\ d <= 3599) =>
                     time_ago = [n |-> d \div 60, text |-> "minutes ago"]
               /\ (3600 <= d /\ d <= 86399) =>
                     time_ago = [n |-> d \div 3600, text |-> "hours ago"]
               /\ d >= 86400 =>
                     time_ago = [n |-> d \div 86400, text |-> "days ago"]

\* C9: the pending view holds exactly the collected pipelines whose status
\* is pending, created or running; the success view holds only collected
\* successes, most recent first, the 10 most recent at most; building the
\* views fetches no pipeline list and leaves the collection as it was.
PendingLike == {"pending", "created", "running"}

Count(data, statuses) == Cardinality({ n \in DOMAIN data : data[n].Status \in statuses })

PendingViewExact ==
    (LoopComplete /\ pc # "overview") =>
        /\ \A r \in Range(pending_df) :
              r.Status \in PendingLike /\ r \in Range(all_pipelines_data)
        /\ \A r \in Range(all_pipelines_data) :
              r.Status \in PendingLike => r \in Range(pending_df)
        /\ Len(pending_df) = Count(all_pipelines_data, PendingLike)

SuccessViewTopN ==
    (LoopComplete /\ pc = "done") =>
        /\ \A r \in Range(success_df) :
              r.Status = "success" /\ r \in Range(all_pipelines_data)
        /\ \A m, n \in DOMAIN success_df :
              m < n => SortKey(success_df[m]) >= SortKey(success_df[n])
        /\ Len(success_df) = IF Count(all_pipelines_data, {"success"}) < TopN
                             THEN Count(all_pipelines_data, {"success"}) ELSE TopN
        /\ \A r \in Range(all_pipelines_data) :
              (r.Status = "success" /\ r \notin Range(success_df)) =>
                  \A n \in DOMAIN success_df : SortKey(success_df[n]) >= SortKey(r)

ViewsFetchNothing ==
    (pc \in {"overview", "pending_tab", "success_tab"} /\
     pc' \in {"pending_tab", "success_tab", "done", "crashed"}) =>
        /\ pipeline_fetches' = pipeline_fetches
        /\ group_fetches' = group_fetches
        /\ all_pipelines_data' = all_pipelines_data

C10_AutoRefreshAggregates ==
    (/\ auto_refresh
     /\ "" \notin {gitlab_url, access_token, group_id}
     /\ pc \in {"rerun", "done", "crashed"}) => group_fetches >= 1
====
